---- MODULE Spec2Model ----
(***************************************************************************)
(* Reverse stress testing (reverse_stress_testing.ipynb): the auxiliary    *)
(* functions gram_schmidt_rows, p_from_w, standard_simplex_vertices,       *)
(* quadratic_form_inv and the main procedure comp_scenarios.               *)
(*                                                                         *)
(* Numbers.  The notebook computes with floating point reals.  Here every  *)
(* real is an exact finite sum of rational multiples of square roots of    *)
(* squarefree naturals  (c1*sqrt(r1) + ... + ck*sqrt(rk)),  represented as *)
(* a function from the radicands ri to the coefficients ci = <<num, den>>. *)
(* The representation is canonical (no zero coefficient, reduced           *)
(* fractions, squarefree radicands), so equality of representations is     *)
(* equality of reals.  All of +, -, *, division by a one-term number and   *)
(* the square root of a non-negative rational are exact in it.             *)
(***************************************************************************)
EXTENDS Integers, Sequences, FiniteSets, TLC

Abs(i) == IF i < 0 THEN -i ELSE i

(* f itself, as an enumerated function: TLC otherwise evaluates the body   *)
(* of a function constructor anew at every application                    *)
Explicit(f) == f @@ << >>

RECURSIVE Gcd(_, _)
Gcd(a, b) == IF b = 0 THEN a ELSE Gcd(b, a % b)

(* ---------------- rationals <<num, den>>, den > 0, reduced ------------- *)
Rat(n, d) ==
    LET g == Gcd(Abs(n), Abs(d))
        s == IF d < 0 THEN -1 ELSE 1
    IN  <<(s * n) \div g, (s * d) \div g>>

QZero == <<0, 1>>
QAdd(x, y) ==
    LET g == Gcd(x[2], y[2])
    IN  Rat(x[1] * (y[2] \div g) + y[1] * (x[2] \div g), (x[2] \div g) * y[2])
QMul(x, y) ==
    LET g1 == Gcd(Abs(x[1]), y[2])
        g2 == Gcd(Abs(y[1]), x[2])
    IN  <<(x[1] \div g1) * (y[1] \div g2), (x[2] \div g2) * (y[2] \div g1)>>
QInv(x) == Rat(x[2], x[1])
QNeg(x) == <<-x[1], x[2]>>

(* ---------------- square parts ---------------------------------------- *)
(* SqPart(m, k): the largest s with s*s dividing m, trying factors >= k.   *)
RECURSIVE SqPart(_, _)
SqPart(m, k) ==
    IF k * k > m THEN 1
    ELSE IF m % (k * k) = 0 THEN k * SqPart(m \div (k * k), k)
    ELSE SqPart(m, k + 1)

(* radicand of sqrt(a)*sqrt(b) for squarefree a, b *)
RadMul(a, b) == LET g == Gcd(a, b) IN (a \div g) * (b \div g)

(* ---------------- reals ------------------------------------------------ *)
Zero == << >>
Coef(x, rv) == IF rv \in DOMAIN x THEN x[rv] ELSE QZero
Mono(qv, rv) == IF qv[1] = 0 THEN Zero ELSE [k \in {rv} |-> qv]
FromRat(qv) == Mono(qv, 1)
Num(i) == FromRat(<<i, 1>>)
Frac(n, d) == FromRat(Rat(n, d))
One == Num(1)

SAdd(x, y) ==
    IF x = Zero THEN y
    ELSE IF y = Zero THEN x
    ELSE LET D == DOMAIN x \cup DOMAIN y
             K == {rv \in D : QAdd(Coef(x, rv), Coef(y, rv))[1] # 0}
         IN  Explicit([rv \in K |-> QAdd(Coef(x, rv), Coef(y, rv))])
SNeg(x) == Explicit([rv \in DOMAIN x |-> QNeg(x[rv])])
SSub(x, y) == SAdd(x, SNeg(y))

(* product of the one-term number q*sqrt(r) with y *)
MulTerm(rv, qv, y) ==
    Explicit([tv \in {RadMul(rv, ry) : ry \in DOMAIN y} |->
                LET ry == RadMul(rv, tv)
                IN  QMul(QMul(qv, y[ry]), <<Gcd(rv, ry), 1>>)])

RECURSIVE MulAcc(_, _, _)
MulAcc(x, y, D) ==
    IF D = {} THEN Zero
    ELSE LET rv == CHOOSE rv \in D : TRUE
         IN  SAdd(MulTerm(rv, x[rv], y), MulAcc(x, y, D \ {rv}))
SMul(x, y) == IF x = Zero \/ y = Zero THEN Zero ELSE MulAcc(x, y, DOMAIN x)

IsMono(x) == Cardinality(DOMAIN x) = 1
IsRat(x) == DOMAIN x \subseteq {1}
RatOf(x) == Coef(x, 1)

(* 1 / (q*sqrt(r)) = sqrt(r) / (q*r); the divisor has exactly one term *)
SInv(y) ==
    LET rv == CHOOSE rv \in DOMAIN y : TRUE
    IN  Mono(QMul(QInv(y[rv]), <<1, rv>>), rv)
SDiv(x, y) == SMul(x, SInv(y))

(* square root of a non-negative rational n/d = sqrt(n*d)/d *)
SSqrt(x) ==
    IF x = Zero THEN Zero
    ELSE LET qv == RatOf(x)
             m == qv[1] * qv[2]
             s == SqPart(m, 2)
         IN  Mono(Rat(s, qv[2]), m \div (s * s))

(* sign of a real: -1, 0, 1 *)
RECURSIVE SSign(_)
SSign(x) ==
    IF x = Zero THEN 0
    ELSE LET rv == CHOOSE rv \in DOMAIN x : TRUE
             lead == Mono(x[rv], rv)
             sv == IF x[rv][1] < 0 THEN -1 ELSE 1
             U == Explicit([tv \in DOMAIN x \ {rv} |-> x[tv]])
         IN  IF U = Zero THEN sv
             ELSE LET su == SSign(U)
                  IN  IF su = sv THEN su
                      ELSE LET s2 == SSign(SSub(SMul(U, U), SMul(lead, lead)))
                           IN  IF s2 > 0 THEN su ELSE IF s2 < 0 THEN sv ELSE 0
SLess(x, y) == SSign(SSub(x, y)) < 0
SLeq(x, y) == SSign(SSub(x, y)) <= 0

(* ---------------- vectors and matrices (sequences of rows) ------------- *)
RECURSIVE SSum(_)
SSum(s) == IF s = << >> THEN Zero ELSE SAdd(Head(s), SSum(Tail(s)))

Dot(u, v) == SSum(Explicit([i \in 1..Len(u) |-> SMul(u[i], v[i])]))
Scale(a, v) == Explicit([i \in 1..Len(v) |-> SMul(a, v[i])])
VAdd(u, v) == Explicit([i \in 1..Len(u) |-> SAdd(u[i], v[i])])
VSub(u, v) == Explicit([i \in 1..Len(u) |-> SSub(u[i], v[i])])
NumVec(v) == Explicit([i \in 1..Len(v) |-> Num(v[i])])
NumMat(A) == Explicit([i \in 1..Len(A) |-> NumVec(A[i])])
NCols(A) == IF Len(A) = 0 THEN 0 ELSE Len(A[1])
Col(A, j) == Explicit([i \in 1..Len(A) |-> A[i][j]])
Transpose(A) == Explicit([j \in 1..NCols(A) |-> Col(A, j)])
MatVec(A, x) == Explicit([i \in 1..Len(A) |-> Dot(A[i], x)])
(* a two-dimensional array, given row by row *)
Matrix(rows) == Explicit([ri \in DOMAIN rows |-> Explicit(rows[ri])])
MatMul(A, B) ==
    LET Bt == Transpose(B)
        e(i, j) == Dot(A[i], Bt[j])
    IN  Matrix([ri \in 1..Len(A) |-> [cj \in 1..Len(Bt) |-> e(ri, cj)]])
Norm(v) == SSqrt(Dot(v, v))

(* ---------------- determinants and linear solves ----------------------- *)
Minor(A, j) ==
    LET e(i, k) == A[i + 1][IF k < j THEN k ELSE k + 1]
    IN  Matrix([ri \in 1..(Len(A) - 1) |-> [cj \in 1..(Len(A) - 1) |-> e(ri, cj)]])

RECURSIVE Det(_)
Det(A) ==
    IF Len(A) = 0 THEN One
    ELSE SSum(Explicit([j \in 1..Len(A) |->
                 IF A[1][j] = Zero THEN Zero
                 ELSE SMul(IF j % 2 = 1 THEN A[1][j] ELSE SNeg(A[1][j]),
                           Det(Minor(A, j)))]))

(* A without row i and column j *)
Cofactor(A, i, j) ==
    LET e(a, b) == A[IF a < i THEN a ELSE a + 1][IF b < j THEN b ELSE b + 1]
        m == Matrix([ri \in 1..(Len(A) - 1) |-> [cj \in 1..(Len(A) - 1) |-> e(ri, cj)]])
    IN  IF (i + j) % 2 = 0 THEN Det(m) ELSE SNeg(Det(m))

(* the inverse of a nonsingular matrix: the adjugate over the determinant  *)
Inverse(A) ==
    LET d == SInv(Det(A))
        e(i, j) == SMul(Cofactor(A, j, i), d)
    IN  Matrix([ri \in 1..Len(A) |-> [cj \in 1..Len(A) |-> e(ri, cj)]])

(* np.linalg.solve(a, x): the solution y of a.y = x *)
Solve(A, x) == MatVec(Inverse(A), x)

(* x' * a^(-1) * x *)
quadratic_form_inv(a, x) == Dot(x, Solve(a, x))

(* ---------------- orthogonal factorization ----------------------------- *)
Signs(n) == [1..n -> {1, -1}]

(* x[k] minus its projections on the orthonormal rows Q *)
RECURSIVE Residual(_, _, _)
Residual(v, Q, i) ==
    IF i = 0 THEN v
    ELSE VSub(Residual(v, Q, i - 1), Scale(Dot(v, Q[i]), Q[i]))

RECURSIVE Orthonormalize(_, _)
Orthonormalize(x, k) ==
    IF k = 0 THEN << >>
    ELSE LET Q == Orthonormalize(x, k - 1)
             v == Residual(x[k], Q, k - 1)
         IN  Append(Q, Scale(SInv(Norm(v)), v))

(* q.T of np.linalg.qr(x.T): the rows of x orthonormalized in order, each  *)
(* up to the sign sgn[i] the factorization gives it (the sign of the       *)
(* diagonal of r is a convention of the library, not fixed by the caller). *)
gram_schmidt_rows(x, sgn) ==
    LET Q == Orthonormalize(x, Len(x))
    IN  Explicit([i \in 1..Len(x) |-> Scale(Num(sgn[i]), Q[i])])

(* ---------------- p_from_w --------------------------------------------- *)
Eps == Frac(1, 100000)
SAbs(x) == IF SSign(x) < 0 THEN SNeg(x) ELSE x
NonzeroIdx(wt) == {j \in 1..Len(wt) : SLess(Eps, SAbs(Num(wt[j])))}
Min(S) == CHOOSE m \in S : \A k \in S : m <= k

(* the matrix p before orthonormalization; j0 is the 1-based first index   *)
(* with |w[j0]| > 0.00001 (the caller makes sure there is one).            *)
InitialP(wt) ==
    LET n == Len(wt)
        j0 == Min(NonzeroIdx(wt))
        wn == Norm(NumVec(wt))
        row0 == Scale(SInv(wn), NumVec(wt))
        e(i, j) == IF i = 1 THEN row0[j]
                   ELSE IF (j < j0 /\ i = j + 1) \/ (j > j0 /\ i = j) THEN One ELSE Zero
    IN  Matrix([ri \in 1..n |-> [cj \in 1..n |-> e(ri, cj)]])

(* for every column j with gs[0, j] < 0 the whole column is negated *)
NegateNegativeColumns(gs) ==
    LET e(i, j) == IF SSign(gs[1][j]) < 0 THEN SNeg(gs[i][j]) ELSE gs[i][j]
    IN  Matrix([ri \in 1..Len(gs) |-> [cj \in 1..NCols(gs) |-> e(ri, cj)]])

p_from_w(wt, sgn) == NegateNegativeColumns(gram_schmidt_rows(InitialP(wt), sgn))

(* ---------------- standard_simplex_vertices ---------------------------- *)
Eye(mv) == Matrix([ri \in 1..mv |-> [cj \in 1..mv |-> IF ri = cj THEN One ELSE Zero]])

(* M >= 2 *)
standard_simplex_vertices(mv, sgn) ==
    LET eye == Eye(mv)
        ez(i, j) == SSub(eye[i][j], Frac(1, mv))
        zv == Matrix([ri \in 1..mv |-> [cj \in 1..mv |-> ez(ri, cj)]])
        ea(i, j) == IF i = 1 \/ i = j THEN One ELSE Zero
        a == Matrix([ri \in 1..mv |-> [cj \in 1..mv |-> ea(ri, cj)]])
        pm == gram_schmidt_rows(a, sgn)
        pz == MatMul(pm, zv)
        cls == [j \in 1..mv |-> IF j < mv THEN j + 1 ELSE 1]
        eg(i, j) == pz[i + 1][cls[j]]
        gs == Matrix([ri \in 1..(mv - 1) |-> [cj \in 1..mv |-> eg(ri, cj)]])
        en(i, j) == SNeg(gs[i][j])
        gsn == IF SSign(gs[1][1]) < 0
               THEN Matrix([ri \in 1..(mv - 1) |-> [cj \in 1..mv |-> en(ri, cj)]])
               ELSE gs
        f == SSqrt(Frac(mv, mv - 1))
    IN  Explicit([i \in 1..(mv - 1) |-> Scale(f, gsn[i])])


(* ---------------- comp_scenarios: the steps ---------------------------- *)
(* a value that is NaN or infinite *)
NonFinite == [k \in {0} |-> <<0, 0>>]

(* central scenario: cw = c.dot(w); ah = L * cw / w.dot(cw) *)
CentralScenario(cov, wt, loss) ==
    LET cw == MatVec(NumMat(cov), NumVec(wt))
    IN  Scale(SMul(Num(loss), SInv(Dot(NumVec(wt), cw))), cw)

(* covariance matrix in the transformed space: dy = p.dot(c.dot(p.T)) *)
TransformedCov(cov, pv) == MatMul(pv, MatMul(NumMat(cov), Transpose(pv)))

(* center of the conditional distribution: ahy = L * dI1 / d11 / wn *)
ConditionalMean(dy, wt, loss) ==
    LET d11 == dy[1][1]
        wn == Norm(NumVec(wt))
    IN  Explicit([i \in 1..(Len(dy) - 1) |->
                    SDiv(SDiv(SMul(Num(loss), dy[i + 1][1]), d11), wn)])

(* conditional covariance: dyh = dII - dI1 * dI1' / d11 *)
ConditionalCov(dy) ==
    LET d11 == dy[1][1]
        e(i, j) == SSub(dy[i + 1][j + 1], SDiv(SMul(dy[i + 1][1], dy[j + 1][1]), d11))
    IN  Matrix([ri \in 1..(Len(dy) - 1) |-> [cj \in 1..(Len(dy) - 1) |-> e(ri, cj)]])

(* np.linalg.eig of a symmetric 1x1 or 2x2 matrix: eigenvalues in the      *)
(* order ord ("asc" or "desc") and unit eigenvectors as columns, each up   *)
(* to the sign sgn[k]; both are conventions of the library.  A diagonal    *)
(* matrix is returned as it stands.                                        *)
Discriminant(a) ==
    LET h == SMul(Frac(1, 2), SSub(a[1][1], a[2][2]))
    IN  SAdd(SMul(h, h), SMul(a[1][2], a[1][2]))

Eigenpair(a, lam) ==
    LET v == <<a[1][2], SSub(lam, a[1][1])>>
    IN  Scale(SInv(Norm(v)), v)

eig(a, ord, sgn) ==
    IF Len(a) = 1 THEN [vals |-> <<a[1][1]>>, vect |-> <<<<Num(sgn[1])>>>>]
    ELSE IF a[1][2] = Zero
    THEN [vals |-> <<a[1][1], a[2][2]>>,
          vect |-> <<<<Num(sgn[1]), Zero>>, <<Zero, Num(sgn[2])>>>>]
    ELSE LET m == SMul(Frac(1, 2), SAdd(a[1][1], a[2][2]))
             sd == SSqrt(Discriminant(a))
             lo == SSub(m, sd)
             hi == SAdd(m, sd)
             vals == IF ord = "asc" THEN <<lo, hi>> ELSE <<hi, lo>>
             cols == Explicit([k \in 1..2 |-> Scale(Num(sgn[k]), Eigenpair(a, vals[k]))])
         IN  [vals |-> vals, vect |-> Transpose(cols)]

(* ind = vals.argsort()[::-1]: the indices by descending value; equal      *)
(* values come out in descending index order (the reverse of the sort).    *)
ArgsortDescending(vals) ==
    LET before(j, i) == SLess(vals[i], vals[j]) \/ (vals[i] = vals[j] /\ j > i)
        pos(i) == Cardinality({j \in 1..Len(vals) : before(j, i)}) + 1
    IN  [k \in 1..Len(vals) |-> CHOOSE i \in 1..Len(vals) : pos(i) = k]

(* V = vect[:, ind] *)
SortedEigenvectors(e) ==
    LET ind == ArgsortDescending(e.vals)
        col(i, k) == e.vect[i][ind[k]]
    IN  Matrix([ri \in 1..Len(e.vect) |-> [cj \in 1..Len(ind) |-> col(ri, cj)]])

(* V[:, :(M - 1)]: at most the first M - 1 columns *)
LeadingColumns(vecs, k) ==
    LET e(i, j) == vecs[i][j]
        kept == IF k < NCols(vecs) THEN k ELSE NCols(vecs)
    IN  Matrix([ri \in 1..Len(vecs) |-> [cj \in 1..kept |-> e(ri, cj)]])

(* q is kept as sgn * exp(-k / 2): np.log(q) = -k/2 for q > 0, and is      *)
(* -inf for q = 0.                                                         *)
Log(qv) == IF qv.sgn = 1 THEN Frac(-(qv.k), 2) ELSE NonFinite

(* the radius without the factor 2: r = np.sqrt(-np.log(q) / denom) *)
Radius_NoFactor(qv, denom) ==
    IF Log(qv) = NonFinite THEN NonFinite
    ELSE LET x == SDiv(SMul(Num(-1), Log(qv)), denom)
         IN  IF SSign(x) < 0 THEN NonFinite ELSE SSqrt(x)

(* r = np.sqrt(-2 * np.log(q) / denom) *)
Radius(qv, denom) ==
    IF Log(qv) = NonFinite THEN NonFinite
    ELSE LET x == SDiv(SMul(Num(-2), Log(qv)), denom)
         IN  IF SSign(x) < 0 THEN NonFinite ELSE SSqrt(x)

(* the shift added along the wrong axis: column j is moved by the scalar   *)
(* ahy[j] (cyclically) instead of by the vector ahy                        *)
ShiftedVertices_WrongAxis(rv, zv, mean) ==
    LET e(i, j) == IF rv = NonFinite THEN NonFinite
                   ELSE SAdd(SMul(rv, zv[i][j]), mean[((j - 1) % Len(mean)) + 1])
    IN  Matrix([ri \in 1..Len(zv) |-> [cj \in 1..NCols(zv) |-> e(ri, cj)]])

(* rz = r * z + ahyr *)
ShiftedVertices(rv, zv, mean) ==
    LET e(i, j) == IF rv = NonFinite THEN NonFinite ELSE SAdd(SMul(rv, zv[i][j]), mean[i])
    IN  Matrix([ri \in 1..Len(zv) |-> [cj \in 1..NCols(zv) |-> e(ri, cj)]])

(* df without the column of the central scenario *)
TransformedScenarios_NoCentral(fc, mean, rzv) ==
    LET e(i, j) == IF i = 1 THEN fc ELSE rzv[i - 1][j]
    IN  Matrix([ri \in 1..(Len(mean) + 1) |-> [cj \in 1..NCols(rzv) |-> e(ri, cj)]])

(* df: row first_comp on top of the columns ahy | rz *)
TransformedScenarios(fc, mean, rzv) ==
    LET e(i, j) == IF i = 1 THEN fc
                   ELSE IF j = 1 THEN mean[i - 1] ELSE rzv[i - 1][j - 1]
    IN  Matrix([ri \in 1..(Len(mean) + 1) |-> [cj \in 1..(NCols(rzv) + 1) |-> e(ri, cj)]])

(* ar = p.T.dot(df); a column holding a NaN or an infinity is all NaN or   *)
(* infinite after the product                                              *)
RotateBack(pv, df) ==
    LET pt == Transpose(pv)
        dft == Transpose(df)
        e(i, j) == IF \E k \in 1..Len(df) : df[k][j] = NonFinite THEN NonFinite
                   ELSE Dot(pt[i], dft[j])
    IN  Matrix([ri \in 1..Len(pv) |-> [cj \in 1..NCols(df) |-> e(ri, cj)]])

(* lik: the entry for scenario j is kept as -2 * ln(pdf_j / pdf_0), which  *)
(* is x_j' c^-1 x_j - x_0' c^-1 x_0 for the zero-mean normal density: the  *)
(* relative likelihood is 1 where it is 0 and q where it is -2 * ln(q).    *)
RelativeLikelihood(cov, scen) ==
    LET prec == Inverse(NumMat(cov))
        Q(j) == Dot(Col(scen, j), MatVec(prec, Col(scen, j)))
        Q0 == Q(1)
    IN  Explicit([j \in 1..NCols(scen) |->
                    IF \E i \in 1..Len(scen) : scen[i][j] = NonFinite THEN NonFinite
                    ELSE SSub(Q(j), Q0)])

(* column 0 of the result of comp_scenarios(c, w, L, q, M) when the          *)
(* factorization in p_from_w has the signs sgn: it depends on neither q     *)
(* nor M (lines 174-213, 256-273)                                           *)
CentralColumn(cov, wt, loss, sgn) ==
    LET pv == p_from_w(wt, sgn)
        ctr == CentralScenario(cov, wt, loss)
        fc == Dot(pv[1], ctr)
        mean == ConditionalMean(TransformedCov(cov, pv), wt, loss)
        e(i, j) == IF i = 1 THEN fc ELSE mean[i - 1]
    IN  Col(RotateBack(pv, Matrix([ri \in 1..Len(wt) |-> [cj \in 1..1 |-> e(ri, cj)]])), 1)

(* ---------------- inputs ----------------------------------------------- *)
MaxW == 2
MaxL == 1
MaxK == 2
MaxM == 3

(* one-factor covariance matrices (a multiple of the identity plus a rank   *)
(* one term) and a plain 2x2 one: symmetric positive definite, and the      *)
(* conditional covariance dyh has rational eigenvalues for every w          *)
Covariances ==
    { <<<<2, 1>>, <<1, 3>>>>,
      <<<<2, -1, -2>>, <<-1, 2, 2>>, <<-2, 2, 5>>>> }

Weights(n) ==
    IF n = 2 THEN [1..2 -> {-1, 0, MaxW}]
    ELSE [1..3 -> {-1, 0, 1}]
Losses == {-MaxL, 0, MaxL}
(* q = 0, q = exp(1/2) > 1, q = 1 and q = exp(-MaxK/2) in (0, 1) *)
Thresholds ==
    {[sgn |-> 0, k |-> 0], [sgn |-> 1, k |-> -1],
     [sgn |-> 1, k |-> 0], [sgn |-> 1, k |-> MaxK]}
Counts == 0..MaxM

(* standard_simplex_vertices depends on M and the signs alone *)
SimplexTable ==
    Explicit([m \in 2..MaxM |->
                Explicit([sgn \in Signs(m) |-> standard_simplex_vertices(m, sgn)])])

VARIABLES c, w, L, q, M, pc, err, ah, p, first_comp, ahy, dyh, V, t, z, r, rz,
          scenarios, lik

inputs == <<c, w, L, q, M>>
vars == <<c, w, L, q, M, pc, err, ah, p, first_comp, ahy, dyh, V, t, z, r, rz,
          scenarios, lik>>

Init ==
    /\ c \in Covariances
    /\ w \in Weights(Len(c))
    /\ L \in Losses
    /\ q \in Thresholds
    /\ M \in Counts
    /\ pc = "start"
    /\ err = "none"
    /\ ah = << >> /\ p = << >> /\ first_comp = Zero /\ ahy = << >> /\ dyh = << >>
    /\ V = << >> /\ t = << >> /\ z = << >> /\ r = Zero /\ rz = << >>
    /\ scenarios = << >> /\ lik = << >>

Raise(e) == pc' = "raised" /\ err' = e

(* lines 174-189: ah, p = p_from_w(w), first_comp *)
Basis ==
    /\ pc = "start"
    /\ IF NonzeroIdx(w) = {}
       THEN /\ Raise("IndexError")
            /\ UNCHANGED <<ah, p, first_comp>>
       ELSE \E sgn \in Signs(Len(w)) :
              /\ ah' = CentralScenario(c, w, L)
              /\ p' = p_from_w(w, sgn)
              /\ first_comp' = Dot(p'[1], ah')
              /\ pc' = "basis"
              /\ err' = err
    /\ UNCHANGED <<inputs, ahy, dyh, V, t, z, r, rz, scenarios, lik>>

(* lines 197-213: dy, ahy, dyh *)
Condition ==
    /\ pc = "basis"
    /\ LET dy == TransformedCov(c, p)
       IN  /\ ahy' = ConditionalMean(dy, w, L)
           /\ dyh' = ConditionalCov(dy)
    /\ pc' = "conditioned"
    /\ UNCHANGED <<inputs, err, ah, p, first_comp, V, t, z, r, rz, scenarios, lik>>

(* lines 220-223: vals, vect = np.linalg.eig(dyh); V = vect[:, ind] *)
Eigen ==
    /\ pc = "conditioned"
    /\ \E ord \in {"asc", "desc"}, sgn \in Signs(Len(dyh)) :
          V' = SortedEigenvectors(eig(dyh, ord, sgn))
    /\ pc' = "eigen"
    /\ UNCHANGED <<inputs, err, ah, p, first_comp, ahy, dyh, t, z, r, rz, scenarios, lik>>

(* line 234: t = standard_simplex_vertices(M) *)
Simplex ==
    /\ pc = "eigen"
    /\ IF M = 0 THEN Raise("ZeroDivisionError") /\ t' = t
       ELSE IF M = 1 THEN Raise("IndexError") /\ t' = t
       ELSE \E sgn \in Signs(M) :
              /\ t' = SimplexTable[M][sgn]
              /\ pc' = "simplex"
              /\ err' = err
    /\ UNCHANGED <<inputs, ah, p, first_comp, ahy, dyh, V, z, r, rz, scenarios, lik>>

(* line 240: z = V[:, :(M - 1)].dot(t) *)
Rotate ==
    /\ pc = "simplex"
    /\ LET Vm == LeadingColumns(V, M - 1)
       IN  IF NCols(Vm) # Len(t)
           THEN Raise("ValueError") /\ z' = z
           ELSE z' = MatMul(Vm, t) /\ pc' = "rotated" /\ err' = err
    /\ UNCHANGED <<inputs, ah, p, first_comp, ahy, dyh, V, t, r, rz, scenarios, lik>>

(* lines 246-250: z_last, denom, r, rz *)
Calibrate ==
    /\ pc = "rotated"
    /\ r' = Radius(q, quadratic_form_inv(dyh, Col(z, M)))
    /\ rz' = ShiftedVertices(r', z, ahy)
    /\ pc' = "calibrated"
    /\ UNCHANGED <<inputs, err, ah, p, first_comp, ahy, dyh, V, t, z, scenarios, lik>>

(* lines 256-273: df, ar, scenarios *)
Assemble ==
    /\ pc = "calibrated"
    /\ scenarios' = RotateBack(p, TransformedScenarios(first_comp, ahy, rz))
    /\ pc' = "assembled"
    /\ UNCHANGED <<inputs, err, ah, p, first_comp, ahy, dyh, V, t, z, r, rz, lik>>

(* lines 278-288: lik; return scenarios, lik *)
Likelihood ==
    /\ pc = "assembled"
    /\ lik' = RelativeLikelihood(c, scenarios)
    /\ pc' = "returned"
    /\ UNCHANGED <<inputs, err, ah, p, first_comp, ahy, dyh, V, t, z, r, rz, scenarios>>

Next ==
    \/ Basis
    \/ Condition
    \/ Eigen
    \/ Simplex
    \/ Rotate
    \/ Calibrate
    \/ Assemble
    \/ Likelihood

Spec == Init /\ [][Next]_vars

(* ---------------- the preconditions of the contract --------------------- *)
(* q in the open interval (0, 1), M >= 2, some |w[j]| > 0.00001; every c   *)
(* of Covariances is symmetric positive definite                           *)
ValidThreshold == q.sgn = 1 /\ q.k > 0
ValidCount == M >= 2
ValidWeights == NonzeroIdx(w) # {}
ValidInput == ValidThreshold /\ ValidCount /\ ValidWeights
Returned == pc = "returned"
Calibrated == pc \in {"calibrated", "assembled", "returned"}

(* the quadratic form z_j' dyh^-1 z_j of the rotated simplex vertex j *)
VertexForm(j) == quadratic_form_inv(dyh, Col(z, j))
(* squared Euclidean distance between the returned scenarios i and j *)
Dist2(i, j) ==
    LET d == VSub(Col(scenarios, i), Col(scenarios, j))
    IN  Dot(d, d)

(* C1: every scenario returned for a valid input, central or alternative,  *)
(* lies on the loss hyperplane: w' Scenario_j = L for j = 0..M.            *)
C1_OnHyperplane ==
    (Returned /\ ValidInput) =>
        \A j \in 1..(M + 1) : Dot(NumVec(w), Col(scenarios, j)) = Num(L)

(* C2, as stated: each of the M alternative scenarios has relative         *)
(* likelihood q, all M rotated vertices having the same quadratic form     *)
(* z_j' dyh^-1 z_j as the last one.                                        *)
C2_AllOnContour ==
    (Returned /\ ValidInput) =>
        \A j \in 1..M : lik[j + 1] = Num(q.k) /\ VertexForm(j) = VertexForm(M)

(* C2, amended: the radius is calibrated on the last rotated vertex alone, *)
(* r^2 * z_M' dyh^-1 z_M = -2 ln q, and the vertex before it has the same  *)
(* quadratic form; nothing is claimed of the other vertices.               *)
C2_LastVertexCalibrated ==
    (Calibrated /\ ValidInput) =>
        /\ SMul(SMul(r, r), VertexForm(M)) = Num(q.k)
        /\ VertexForm(M - 1) = VertexForm(M)
C2_Witness ==
    /\ Returned /\ ValidInput /\ M = 3
    /\ \A j \in 1..Len(w) : w[j] > 0
    /\ VertexForm(1) # VertexForm(M)
    /\ lik[2] # Num(q.k)
    /\ SMul(SMul(r, r), VertexForm(M)) = Num(q.k)

(* C3: column Scenario_0 returned for a valid input is the central         *)
(* scenario ah = L * C w / (w' C w), whatever the signs of w.              *)
C3_CentralColumn == (Returned /\ ValidInput) => Col(scenarios, 1) = ah

(* C4: Scenario_0 of the call with -w (same c, L, q, M) is minus           *)
(* Scenario_0 of the call with w, for every valid input.                   *)
C4_NegationOddness ==
    (Returned /\ ValidInput) =>
        \A sgn \in Signs(Len(w)) :
            CentralColumn(c, [i \in 1..Len(w) |-> -w[i]], L, sgn)
                = Scale(Num(-1), Col(scenarios, 1))

(* C5: for a valid input all distances between two distinct alternative    *)
(* scenarios are equal, and all distances from the central scenario to an  *)
(* alternative scenario are equal (squared distances are compared).        *)
C5_Equidistant ==
    (Returned /\ ValidInput) =>
        /\ \A i, j \in 2..(M + 1) : i < j => Dist2(i, j) = Dist2(2, 3)
        /\ \A i, j \in 2..(M + 1) : Dist2(1, i) = Dist2(1, j)
C5_Witness ==
    /\ Returned /\ ValidInput /\ M = 3
    /\ \E j \in 1..Len(w) : w[j] < 0
    /\ Dist2(2, 3) = Dist2(3, 4) /\ Dist2(2, 3) # Zero
    /\ Dist2(1, 2) = Dist2(1, 4) /\ Dist2(1, 2) # Dist2(2, 3)

(* C6: a call that violates a precondition (q outside (0, 1), M < 2, or    *)
(* no |w[j]| > 0.00001) never returns, and the error it raises is          *)
(* InvalidParameterError, respectively DegenerateWeightError.              *)
C6_InvalidRejected ==
    ~ValidInput =>
        /\ ~Returned
        /\ pc = "raised" =>
              err = (IF ValidWeights THEN "InvalidParameterError"
                     ELSE "DegenerateWeightError")

(* C7, as stated: for every valid input, M > n included, the call returns  *)
(* n rows and M + 1 columns of scenarios and M + 1 likelihoods.            *)
ReturnsShape ==
    /\ pc # "raised"
    /\ Returned =>
          /\ Len(scenarios) = Len(w)
          /\ \A i \in 1..Len(w) : Len(scenarios[i]) = M + 1
          /\ Len(lik) = M + 1
C7_ShapeForEveryCount == ValidInput => ReturnsShape

(* C7, amended: for every valid input with 2 <= M <= n the call raises     *)
(* nothing and returns n rows and M + 1 columns of scenarios and M + 1     *)
(* likelihoods; with M > n it raises ValueError at line 240.               *)
C7_ShapeUpToDimension ==
    ValidInput =>
        IF M <= Len(w) THEN ReturnsShape
        ELSE ~Returned /\ (pc = "raised" => err = "ValueError")
C7_Witness ==
    /\ Returned /\ ValidInput /\ M = Len(w)
    /\ Len(scenarios) = Len(w) /\ Len(scenarios[1]) = M + 1 /\ Len(lik) = M + 1

(* C8: for a valid input the relative likelihood of every returned         *)
(* scenario lies between q and 1: 0 <= -2 ln(lik[j]) <= -2 ln(q).          *)
C8_LikelihoodBounds ==
    (Returned /\ ValidInput) =>
        \A j \in 1..(M + 1) : SLeq(Zero, lik[j]) /\ SLeq(lik[j], Num(q.k))

(* C9: for w with some |w[j]| > 0.00001 the matrix p_from_w(w) is          *)
(* orthonormal and its first row is w / norm(w), component by component.   *)
C9_FirstRowIsUnitW ==
    pc = "basis" =>
        /\ MatMul(p, Transpose(p)) = Eye(Len(w))
        /\ p[1] = Scale(SInv(Norm(NumVec(w))), NumVec(w))

(* C10: p_from_w(w) is the same matrix whatever rows of the                *)
(* orthonormalized matrix the factorization negates.                       *)
C10_SignIndependent ==
    pc = "basis" => \A sgn \in Signs(Len(w)) : p_from_w(w, sgn) = p
====
